---- MODULE Spec2Model ----
(***************************************************************************)
(* The memory map of src/memory.rs: an ordered list of address-range       *)
(* entries with optional per-width read/write handlers, a current address  *)
(* and a global address mask; resolution (search_entries) and the ten bus  *)
(* operations that dispatch on the resolved entry.                         *)
(*                                                                         *)
(* Address is u128 in the source.  The model keeps the structure and       *)
(* scales the width down to AddrBits bits, so that AddrMax stands for      *)
(* std::u128::MAX.  Indices are 0-based as in the source; the entry at     *)
(* source index i is entries[i + 1] here.                                  *)
(***************************************************************************)
EXTENDS Integers, Sequences, FiniteSets, TLC

\* Width of an Address in bits (128 in the source).
AddrBits == 4

\* Longest entry list a configuration starts from or setup code appends to.
MaxEntries == 2

RECURSIVE Pow2(_)
Pow2(n) == IF n = 0 THEN 1 ELSE 2 * Pow2(n - 1)

\* std::u128::MAX at the modelled width.
AddrMax == Pow2(AddrBits) - 1

Address == 0 .. AddrMax

\* a & b on unsigned integers.
RECURSIVE BitAnd(_, _)
BitAnd(a, b) ==
    IF a = 0 \/ b = 0 THEN 0
    ELSE (a % 2) * (b % 2) + 2 * BitAnd(a \div 2, b \div 2)

\* enum MemoryMapEntryType
MemoryMapEntryType == {"UnmappedLow", "UnmappedHigh", "Read", "Write", "ReadWrite"}

\* Option::None of a handler field.
None == "None"

\* The handler functions setup code may register (fn pointers).
Handlers == {"h1", "h2"}

\* `v as uN` on an unsigned value: kept below 2^bits (every value of the
\* model is below 2^24, so widths of 32 bits and more never truncate).
AsUnsigned(v, bits) == IF bits >= 24 THEN v ELSE v % Pow2(bits)

\* What read handler h of the given width returns when called with address a:
\* a value of that width that tells the handler, the width and the address
\* apart.
ReadDelegate(h, width, a) ==
    AsUnsigned((IF width = 8 THEN 0 ELSE width * 256)
               + (IF h = "h1" THEN 64 ELSE 128) + a, width)

\* MemoryMapEntry::new()
MemoryMapEntry_new ==
    [ start |-> 0, end |-> AddrMax, entry_type |-> "UnmappedLow",
      func_read_u8 |-> None, func_read_u16 |-> None, func_read_u32 |-> None,
      func_read_u64 |-> None, func_read_u128 |-> None,
      func_write_u8 |-> None, func_write_u16 |-> None, func_write_u32 |-> None,
      func_write_u64 |-> None, func_write_u128 |-> None ]

\* A MemoryMapEntry with handler h registered for the read widths rd and the
\* write widths wr.
MemoryMapEntry(s, e, t, rd, wr, h) ==
    [ start |-> s, end |-> e, entry_type |-> t,
      func_read_u8 |-> IF 8 \in rd THEN h ELSE None,
      func_read_u16 |-> IF 16 \in rd THEN h ELSE None,
      func_read_u32 |-> IF 32 \in rd THEN h ELSE None,
      func_read_u64 |-> IF 64 \in rd THEN h ELSE None,
      func_read_u128 |-> IF 128 \in rd THEN h ELSE None,
      func_write_u8 |-> IF 8 \in wr THEN h ELSE None,
      func_write_u16 |-> IF 16 \in wr THEN h ELSE None,
      func_write_u32 |-> IF 32 \in wr THEN h ELSE None,
      func_write_u64 |-> IF 64 \in wr THEN h ELSE None,
      func_write_u128 |-> IF 128 \in wr THEN h ELSE None ]

\* A new map whose first entry covers address 0 only.
MemoryMap_new_narrow ==
    [ entries |-> << [MemoryMapEntry_new EXCEPT !.end = 0] >>, current_addr |-> 0,
      global_addr_mask |-> AddrMax ]

\* MemoryMap::new()
MemoryMap_new ==
    [ entries |-> << MemoryMapEntry_new >>, current_addr |-> 0,
      global_addr_mask |-> AddrMax ]

\* MemoryMap::addr
addr(map) == BitAnd(map.current_addr, map.global_addr_mask)

\* The loop with the range's end exclusive.
RECURSIVE search_loop_exclusive(_, _, _)
search_loop_exclusive(map, i, entry_count) ==
    IF i >= Len(map.entries)
    THEN [found |-> FALSE, i |-> i, entry_count |-> entry_count]
    ELSE LET entry == map.entries[i + 1]
         IN  IF (entry.start <= addr(map)) /\ (entry.end > addr(map))
             THEN [found |-> TRUE, i |-> i, entry_count |-> entry_count]
             ELSE search_loop_exclusive(map, i + 1, i)

\* The for loop of search_entries from source index i on, entry_count being
\* the local of that name.
RECURSIVE search_loop(_, _, _)
search_loop(map, i, entry_count) ==
    IF i >= Len(map.entries)
    THEN [found |-> FALSE, i |-> i, entry_count |-> entry_count]
    ELSE LET entry == map.entries[i + 1]
         IN  IF (entry.start <= addr(map)) /\ (entry.end >= addr(map))
             THEN [found |-> TRUE, i |-> i, entry_count |-> entry_count]
             ELSE search_loop(map, i + 1, i)

\* search_entries indexing with the index of the last entry visited itself.
search_entries_stale(map) ==
    LET r == search_loop(map, 0, 0)
        pushed == [map EXCEPT !.entries = Append(@, MemoryMapEntry_new)]
    IN  IF r.found
        THEN [map |-> map, status |-> "ok", hit |-> TRUE, idx |-> r.i,
              entry |-> map.entries[r.i + 1]]
        ELSE [map |-> pushed, status |-> "ok", hit |-> FALSE,
              idx |-> r.entry_count,
              entry |-> pushed.entries[r.entry_count + 1]]

\* search_entries returning a default entry on a miss without pushing it.
search_entries_nopush(map) ==
    LET r == search_loop(map, 0, 0)
    IN  IF r.found
        THEN [map |-> map, status |-> "ok", hit |-> TRUE, idx |-> r.i,
              entry |-> map.entries[r.i + 1]]
        ELSE [map |-> map, status |-> "ok", hit |-> FALSE,
              idx |-> r.entry_count, entry |-> MemoryMapEntry_new]

\* search_entries: the map it leaves, the entry it returns and the source
\* index it took it from; status "index_out_of_bounds" is the panic of the
\* indexing in its last line.
search_entries(map) ==
    LET r == search_loop(map, 0, 0)
        pushed == [map EXCEPT !.entries = Append(@, MemoryMapEntry_new)]
    IN  IF r.found
        THEN [map |-> map, status |-> "ok", hit |-> TRUE, idx |-> r.i,
              entry |-> map.entries[r.i + 1]]
        ELSE IF r.entry_count + 1 < Len(pushed.entries)
        THEN [map |-> pushed, status |-> "ok", hit |-> FALSE,
              idx |-> r.entry_count + 1,
              entry |-> pushed.entries[r.entry_count + 2]]
        ELSE [map |-> pushed, status |-> "index_out_of_bounds", hit |-> FALSE,
              idx |-> r.entry_count + 1, entry |-> MemoryMapEntry_new]

\* The outcome of a bus operation: the map it leaves, how it ended ("ok" or
\* the panic), the value returned (reads), the handler invocations it made,
\* and the source index of the entry its first resolution returned.
Outcome(sr, status, value, calls) ==
    [map |-> sr.map, status |-> status, value |-> value, calls |-> calls,
     idx |-> sr.idx, hit |-> sr.hit]

ReadCall(h, width, a) == [kind |-> "read", func |-> h, width |-> width, addr |-> a]
WriteCall(h, width, a, data) ==
    [kind |-> "write", func |-> h, width |-> width, addr |-> a, data |-> data]

\* select_address storing the raw address and leaving the masking to addr().
select_address_raw(map, a) ==
    [map EXCEPT !.current_addr = a]

\* Bus::select_address for MemoryMap
select_address(map, a) ==
    [map EXCEPT !.current_addr = BitAnd(a, map.global_addr_mask)]

\* read_u8 that swallows a mapped entry without a handler into 0.
read_u8_swallow(map) ==
    LET sr == search_entries(map)
    IN  IF sr.status # "ok" THEN Outcome(sr, sr.status, 0, << >>)
        ELSE IF sr.entry.func_read_u8 # None
        THEN Outcome(sr, "ok",
                     ReadDelegate(sr.entry.func_read_u8, 8, sr.map.current_addr),
                     << ReadCall(sr.entry.func_read_u8, 8, sr.map.current_addr) >>)
        ELSE IF sr.entry.entry_type = "UnmappedHigh" THEN Outcome(sr, "ok", 255, << >>)
        ELSE Outcome(sr, "ok", 0, << >>)

\* read_u8 whose fallback reads every unmapped entry as 0.
read_u8_low(map) ==
    LET sr == search_entries(map)
    IN  IF sr.status # "ok" THEN Outcome(sr, sr.status, 0, << >>)
        ELSE IF sr.entry.func_read_u8 # None
        THEN Outcome(sr, "ok",
                     ReadDelegate(sr.entry.func_read_u8, 8, sr.map.current_addr),
                     << ReadCall(sr.entry.func_read_u8, 8, sr.map.current_addr) >>)
        ELSE IF sr.entry.entry_type \in {"UnmappedLow", "UnmappedHigh"}
        THEN Outcome(sr, "ok", 0, << >>)
        ELSE Outcome(sr, "broken_map", 0, << >>)

\* Bus::read_u8 for MemoryMap
read_u8(map) ==
    LET sr == search_entries(map)
    IN  IF sr.status # "ok" THEN Outcome(sr, sr.status, 0, << >>)
        ELSE IF sr.entry.func_read_u8 # None
        THEN Outcome(sr, "ok",
                     ReadDelegate(sr.entry.func_read_u8, 8, sr.map.current_addr),
                     << ReadCall(sr.entry.func_read_u8, 8, sr.map.current_addr) >>)
        ELSE IF sr.entry.entry_type = "UnmappedLow" THEN Outcome(sr, "ok", 0, << >>)
        ELSE IF sr.entry.entry_type = "UnmappedHigh" THEN Outcome(sr, "ok", 255, << >>)
        ELSE Outcome(sr, "broken_map", 0, << >>)

\* The None arm of a wide read: the narrower read on the map the resolution
\* left, its value cast to the wider type; the index reported stays that of
\* the first resolution.
Fallback(sr, narrow, bits) ==
    [narrow EXCEPT !.value = AsUnsigned(@, bits), !.idx = sr.idx, !.hit = sr.hit]

\* Bus::read_u16 for MemoryMap
read_u16(map) ==
    LET sr == search_entries(map)
    IN  IF sr.status # "ok" THEN Outcome(sr, sr.status, 0, << >>)
        ELSE IF sr.entry.func_read_u16 # None
        THEN Outcome(sr, "ok",
                     ReadDelegate(sr.entry.func_read_u16, 16, sr.map.current_addr),
                     << ReadCall(sr.entry.func_read_u16, 16, sr.map.current_addr) >>)
        ELSE Fallback(sr, read_u8(sr.map), 16)

\* read_u32 falling back to the 8-bit read, past the 16-bit one.
read_u32_skip(map) ==
    LET sr == search_entries(map)
    IN  IF sr.status # "ok" THEN Outcome(sr, sr.status, 0, << >>)
        ELSE IF sr.entry.func_read_u32 # None
        THEN Outcome(sr, "ok",
                     ReadDelegate(sr.entry.func_read_u32, 32, sr.map.current_addr),
                     << ReadCall(sr.entry.func_read_u32, 32, sr.map.current_addr) >>)
        ELSE Fallback(sr, read_u8(sr.map), 32)

\* Bus::read_u32 for MemoryMap
read_u32(map) ==
    LET sr == search_entries(map)
    IN  IF sr.status # "ok" THEN Outcome(sr, sr.status, 0, << >>)
        ELSE IF sr.entry.func_read_u32 # None
        THEN Outcome(sr, "ok",
                     ReadDelegate(sr.entry.func_read_u32, 32, sr.map.current_addr),
                     << ReadCall(sr.entry.func_read_u32, 32, sr.map.current_addr) >>)
        ELSE Fallback(sr, read_u16(sr.map), 32)

\* Bus::read_u64 for MemoryMap
read_u64(map) ==
    LET sr == search_entries(map)
    IN  IF sr.status # "ok" THEN Outcome(sr, sr.status, 0, << >>)
        ELSE IF sr.entry.func_read_u64 # None
        THEN Outcome(sr, "ok",
                     ReadDelegate(sr.entry.func_read_u64, 64, sr.map.current_addr),
                     << ReadCall(sr.entry.func_read_u64, 64, sr.map.current_addr) >>)
        ELSE Fallback(sr, read_u32(sr.map), 64)

\* Bus::read_u128 for MemoryMap
read_u128(map) ==
    LET sr == search_entries(map)
    IN  IF sr.status # "ok" THEN Outcome(sr, sr.status, 0, << >>)
        ELSE IF sr.entry.func_read_u128 # None
        THEN Outcome(sr, "ok",
                     ReadDelegate(sr.entry.func_read_u128, 128, sr.map.current_addr),
                     << ReadCall(sr.entry.func_read_u128, 128, sr.map.current_addr) >>)
        ELSE Fallback(sr, read_u64(sr.map), 128)

\* A write that insists on a handler where the entry is typed Write or
\* ReadWrite, as read_u8 does for reads.
write_dispatch_strict(sr, func, width, data) ==
    IF sr.status # "ok" THEN Outcome(sr, sr.status, 0, << >>)
    ELSE IF func # None
    THEN Outcome(sr, "ok", 0, << WriteCall(func, width, sr.map.current_addr, data) >>)
    ELSE IF sr.entry.entry_type \in {"Write", "ReadWrite"}
    THEN Outcome(sr, "broken_map", 0, << >>)
    ELSE Outcome(sr, "ok", 0, << >>)

\* The body shared by the five writes: the handler, if any, is called with
\* the current address and the data; None returns.
write_dispatch(sr, func, width, data) ==
    IF sr.status # "ok" THEN Outcome(sr, sr.status, 0, << >>)
    ELSE IF func # None
    THEN Outcome(sr, "ok", 0, << WriteCall(func, width, sr.map.current_addr, data) >>)
    ELSE Outcome(sr, "ok", 0, << >>)

\* Bus::write_u8 .. write_u128 for MemoryMap
write_u8(map, data) ==
    LET sr == search_entries(map) IN write_dispatch(sr, sr.entry.func_write_u8, 8, data)

write_u16(map, data) ==
    LET sr == search_entries(map) IN write_dispatch(sr, sr.entry.func_write_u16, 16, data)

write_u32(map, data) ==
    LET sr == search_entries(map) IN write_dispatch(sr, sr.entry.func_write_u32, 32, data)

write_u64(map, data) ==
    LET sr == search_entries(map) IN write_dispatch(sr, sr.entry.func_write_u64, 64, data)

write_u128(map, data) ==
    LET sr == search_entries(map) IN write_dispatch(sr, sr.entry.func_write_u128, 128, data)

(***************************************************************************)
(* State: the three fields of MemoryMap, and a record of the operation     *)
(* that ran last with the map it started from.                             *)
(***************************************************************************)
VARIABLES entries, current_addr, global_addr_mask, last, pre

vars == << entries, current_addr, global_addr_mask, last, pre >>

\* The MemoryMap value the state holds.
Map ==
    [ entries |-> entries, current_addr |-> current_addr,
      global_addr_mask |-> global_addr_mask ]

\* Entries setup code configures a map with: the default entry, windows
\* that overlap each other and leave addresses uncovered, every declared
\* type, and handlers at every width with and without narrower ones beside
\* them.
EntryChoices ==
    { MemoryMapEntry_new,
      MemoryMapEntry(0, AddrMax, "ReadWrite", {8, 16, 32, 64, 128},
                     {8, 16, 32, 64, 128}, "h2"),
      MemoryMapEntry(0, 3, "UnmappedLow", {8}, {8}, "h1"),
      MemoryMapEntry(0, 3, "Write", {}, {16, 32}, "h2"),
      MemoryMapEntry(2, 5, "Read", {16, 64}, {}, "h2"),
      MemoryMapEntry(2, 5, "UnmappedHigh", {32, 128}, {64, 128}, "h1"),
      MemoryMapEntry(4, AddrMax, "ReadWrite", {64}, {8}, "h1") }

\* The entry lists of at most n entries.  A list is never empty:
\* MemoryMap::new() starts it with one entry and nothing removes one.
EntryLists(n) == UNION { [1 .. k -> EntryChoices] : k \in 1 .. n }

\* Masks a caller sets: all ones, the two of test_global_address_mask, and
\* one with a hole in it.
Masks == { AddrMax, 7, 1, 5 }

\* Data a caller writes.
WriteData == { 85 }

\* No call is in progress and no result is pending.
Idle ==
    [op |-> "none", arg |-> 0, status |-> "ok", value |-> 0,
     calls |-> << >>, idx |-> 0, hit |-> TRUE]

\* A configured map before its first bus operation.
Init ==
    /\ entries \in EntryLists(MaxEntries)
    /\ current_addr = 0
    /\ global_addr_mask = AddrMax
    /\ last = Idle
    /\ pre = Map

\* MemoryMap::new() and nothing else.
InitNew ==
    /\ entries = MemoryMap_new.entries
    /\ current_addr = MemoryMap_new.current_addr
    /\ global_addr_mask = MemoryMap_new.global_addr_mask
    /\ last = Idle
    /\ pre = MemoryMap_new

\* The caller is between two calls: the last one has returned and its result
\* is taken.  (A panic never returns, so no operation runs after one.)
Running == last = Idle

\* The state after a step that is no bus operation.
Store(op, arg, map) ==
    /\ entries' = map.entries
    /\ current_addr' = map.current_addr
    /\ global_addr_mask' = map.global_addr_mask
    /\ last' = [op |-> op, arg |-> arg, status |-> "ok", value |-> 0,
                calls |-> << >>, idx |-> 0, hit |-> TRUE]
    /\ pre' = map

\* The state after a bus operation or a bare resolution with outcome out.
Finish(op, arg, out) ==
    /\ entries' = out.map.entries
    /\ current_addr' = out.map.current_addr
    /\ global_addr_mask' = out.map.global_addr_mask
    /\ last' = [op |-> op, arg |-> arg, status |-> out.status, value |-> out.value,
                calls |-> out.calls, idx |-> out.idx, hit |-> out.hit]
    /\ pre' = Map

SelectAddress ==
    /\ Running
    /\ \E a \in Address : Store("select_address", a, select_address(Map, a))

\* map.global_addr_mask = m
SetGlobalAddrMask ==
    /\ Running
    /\ \E m \in Masks : Store("set_mask", m, [Map EXCEPT !.global_addr_mask = m])

\* map.entries[0].entry_type = MemoryMapEntryType::UnmappedHigh, done as the
\* tests do it, on a map with a single entry.
SetEntryType ==
    /\ Running
    /\ Len(entries) = 1
    /\ Store("set_entry_type", 0,
             [Map EXCEPT !.entries[1].entry_type = "UnmappedHigh"])

\* Setup code appends an entry.
AppendEntry ==
    /\ Running
    /\ Len(entries) < MaxEntries
    /\ \E e \in EntryChoices :
          Store("append", 0, [Map EXCEPT !.entries = Append(@, e)])

\* A bare call of search_entries.
SearchEntries ==
    /\ Running
    /\ LET sr == search_entries(Map)
       IN  Finish("search_entries", 0, Outcome(sr, sr.status, 0, << >>))

ReadU8 == Running /\ Finish("read_u8", 0, read_u8(Map))

ReadU16 == Running /\ Finish("read_u16", 0, read_u16(Map))

ReadU32 == Running /\ Finish("read_u32", 0, read_u32(Map))

ReadU64 == Running /\ Finish("read_u64", 0, read_u64(Map))

ReadU128 == Running /\ Finish("read_u128", 0, read_u128(Map))

WriteU8 == Running /\ \E d \in WriteData : Finish("write_u8", d, write_u8(Map, d))

WriteU16 == Running /\ \E d \in WriteData : Finish("write_u16", d, write_u16(Map, d))

WriteU32 == Running /\ \E d \in WriteData : Finish("write_u32", d, write_u32(Map, d))

WriteU64 == Running /\ \E d \in WriteData : Finish("write_u64", d, write_u64(Map, d))

WriteU128 == Running /\ \E d \in WriteData : Finish("write_u128", d, write_u128(Map, d))

\* The last call returns to its caller, which goes on to its next call.
Return ==
    /\ last # Idle
    /\ last.status = "ok"
    /\ last' = Idle
    /\ pre' = Map
    /\ UNCHANGED << entries, current_addr, global_addr_mask >>

\* What a bus consumer does: select, read, write, change the mask.
BusNext ==
    \/ SelectAddress
    \/ SetGlobalAddrMask
    \/ SearchEntries
    \/ ReadU8
    \/ ReadU16
    \/ ReadU32
    \/ ReadU64
    \/ ReadU128
    \/ WriteU8
    \/ WriteU16
    \/ WriteU32
    \/ WriteU64
    \/ WriteU128
    \/ Return

Next == BusNext \/ SetEntryType

NextNew == BusNext \/ AppendEntry

\* Any configured map, driven by a bus consumer.
Spec == Init /\ [][Next]_vars

\* MemoryMap::new(), entries appended and never modified, driven by a bus
\* consumer.
SpecNew == InitNew /\ [][NextNew]_vars

(***************************************************************************)
(* Vocabulary of the properties.                                           *)
(***************************************************************************)
ReadOps == {"read_u8", "read_u16", "read_u32", "read_u64", "read_u128"}

WriteOps == {"write_u8", "write_u16", "write_u32", "write_u64", "write_u128"}

\* The operations that resolve an entry.
ResolvingOps == {"search_entries"} \cup ReadOps \cup WriteOps

WidthOf(op) ==
    CASE op \in {"read_u8", "write_u8"} -> 8
      [] op \in {"read_u16", "write_u16"} -> 16
      [] op \in {"read_u32", "write_u32"} -> 32
      [] op \in {"read_u64", "write_u64"} -> 64
      [] op \in {"read_u128", "write_u128"} -> 128

\* The read / write handler field of entry e for a width.
ReadFunc(e, width) ==
    CASE width = 8 -> e.func_read_u8
      [] width = 16 -> e.func_read_u16
      [] width = 32 -> e.func_read_u32
      [] width = 64 -> e.func_read_u64
      [] width = 128 -> e.func_read_u128

WriteFunc(e, width) ==
    CASE width = 8 -> e.func_write_u8
      [] width = 16 -> e.func_write_u16
      [] width = 32 -> e.func_write_u32
      [] width = 64 -> e.func_write_u64
      [] width = 128 -> e.func_write_u128

\* The named read or write applied to a map.
BusOp(op, data, map) ==
    CASE op = "read_u8" -> read_u8(map)
      [] op = "read_u16" -> read_u16(map)
      [] op = "read_u32" -> read_u32(map)
      [] op = "read_u64" -> read_u64(map)
      [] op = "read_u128" -> read_u128(map)
      [] op = "write_u8" -> write_u8(map, data)
      [] op = "write_u16" -> write_u16(map, data)
      [] op = "write_u32" -> write_u32(map, data)
      [] op = "write_u64" -> write_u64(map, data)
      [] op = "write_u128" -> write_u128(map, data)

\* What a caller and the handlers see of an outcome.
Observed(out) == [status |-> out.status, value |-> out.value, calls |-> out.calls]

\* The last operation resolved an entry (it did not panic before having one).
Resolved == last.op \in ResolvingOps /\ last.status # "index_out_of_bounds"

\* The entry the last operation's resolution returned.
ResolvedEntry == entries[last.idx + 1]

\* The address resolution compared the ranges with.
MaskedAddr == BitAnd(pre.current_addr, pre.global_addr_mask)

Contains(e, a) == e.start <= a /\ a <= e.end

\* Source indices of the entries, before the operation, that contain the
\* masked address.
Matching ==
    LET a == MaskedAddr
    IN  { i \in 0 .. Len(pre.entries) - 1 : Contains(pre.entries[i + 1], a) }

\* The widths up to w at which entry e has a read handler.
HandledUpTo(e, w) == { k \in {8, 16, 32, 64, 128} : k <= w /\ ReadFunc(e, k) # None }

Widest(S) == CHOOSE k \in S : \A j \in S : j <= k

MappedTypes == {"Read", "Write", "ReadWrite"}

(***************************************************************************)
(* C1: select_address(a) sets the current address to a & mask (mask 1,     *)
(* a = 5 gives 1; mask 7, a = 5 gives 5; mask 7, a = 8 gives 0) and        *)
(* changes neither the entries nor the mask, so that every read or write   *)
(* issued next leaves the same map and yields the same result as it does   *)
(* after select_address(a & mask).                                         *)
(***************************************************************************)
C1_SelectStoresMasked ==
    /\ [][ last'.op = "select_address" =>
             /\ current_addr' = BitAnd(last'.arg, global_addr_mask)
             /\ (global_addr_mask = 1 /\ last'.arg = 5 => current_addr' = 1)
             /\ (global_addr_mask = 7 /\ last'.arg = 5 => current_addr' = 5)
             /\ (global_addr_mask = 7 /\ last'.arg = 8 => current_addr' = 0)
             /\ entries' = entries
             /\ global_addr_mask' = global_addr_mask
             /\ select_address(Map, last'.arg)
                = select_address(Map, BitAnd(last'.arg, global_addr_mask))
       ]_vars
    /\ [] ( last.op = "select_address" =>
              \A op \in ReadOps \cup WriteOps : \A d \in WriteData :
                 BusOp(op, d, Map)
                 = BusOp(op, d, select_address(Map, BitAnd(last.arg, global_addr_mask))) )

\* A select of an address the mask changes: 8 under mask 7 is stored as 0.
C1_Witness ==
    /\ last.op = "select_address"
    /\ last.arg = 8
    /\ global_addr_mask = 7
    /\ current_addr = 0

(***************************************************************************)
(* C2: when the entry resolved for the current address has a read handler  *)
(* of the width read, the read returns that handler's value, whatever the  *)
(* narrower handlers and the entry type are, and the handler is called     *)
(* once with the masked address resolution compared the ranges with, also  *)
(* after the mask was changed.                                             *)
(***************************************************************************)
C2_HandlerGetsResolvedAddress ==
    (Resolved /\ last.op \in ReadOps
       /\ ReadFunc(ResolvedEntry, WidthOf(last.op)) # None)
    => LET h == ReadFunc(ResolvedEntry, WidthOf(last.op))
       IN  /\ last.status = "ok"
           /\ last.value = ReadDelegate(h, WidthOf(last.op), MaskedAddr)
           /\ last.calls = << ReadCall(h, WidthOf(last.op), MaskedAddr) >>

(***************************************************************************)
(* C3: a read_u8 that resolves to an entry without an 8-bit read handler   *)
(* returns 0 for UnmappedLow and 0xFF for UnmappedHigh; a map as           *)
(* MemoryMap::new() builds it reads 0 at every address, and 0xFF at every  *)
(* address once its only entry is retyped UnmappedHigh.                    *)
(***************************************************************************)
C3_UnmappedRead ==
    /\ (Resolved /\ last.op = "read_u8" /\ ResolvedEntry.func_read_u8 = None
          /\ ResolvedEntry.entry_type = "UnmappedLow")
       => (last.status = "ok" /\ last.value = 0 /\ last.calls = << >>)
    /\ (Resolved /\ last.op = "read_u8" /\ ResolvedEntry.func_read_u8 = None
          /\ ResolvedEntry.entry_type = "UnmappedHigh")
       => (last.status = "ok" /\ last.value = 255 /\ last.calls = << >>)
    /\ (last.op = "read_u8" /\ pre.entries = << MemoryMapEntry_new >>)
       => (last.status = "ok" /\ last.value = 0)
    /\ (last.op = "read_u8"
          /\ pre.entries = << [MemoryMapEntry_new EXCEPT !.entry_type = "UnmappedHigh"] >>)
       => (last.status = "ok" /\ last.value = 255)

\* The only entry of a new map was retyped UnmappedHigh and a read_u8 at a
\* selected address other than 0 returned 0xFF.
C3_Witness ==
    /\ last.op = "read_u8"
    /\ pre.entries = << [MemoryMapEntry_new EXCEPT !.entry_type = "UnmappedHigh"] >>
    /\ current_addr = 9
    /\ last.value = 255

(***************************************************************************)
(* C4 as claimed: a write that resolves to an entry without a write        *)
(* handler of its width raises no error and changes nothing at all: the    *)
(* entry list, the current address and the mask are as before it, and      *)
(* every read issued after it returns what it would have returned before.  *)
(***************************************************************************)
C4_WriteChangesNothing ==
    (Resolved /\ last.op \in WriteOps
       /\ WriteFunc(ResolvedEntry, WidthOf(last.op)) = None)
    => /\ last.status = "ok"
       /\ last.calls = << >>
       /\ entries = pre.entries
       /\ current_addr = pre.current_addr
       /\ global_addr_mask = pre.global_addr_mask
       /\ \/ Map = pre
          \/ \A r \in ReadOps :
                Observed(BusOp(r, 0, Map)) = Observed(BusOp(r, 0, pre))

(***************************************************************************)
(* C4 as amended: such a write raises no error, calls no handler and       *)
(* leaves the current address and the mask unchanged; the entry list is    *)
(* unchanged when an entry contained the address, and otherwise is the     *)
(* old list with the one default entry resolution appended; every read     *)
(* issued after it returns what it would have returned before it (which    *)
(* needs no look when the map is the very same as before).                 *)
(***************************************************************************)
C4_WriteDiscarded ==
    (Resolved /\ last.op \in WriteOps
       /\ WriteFunc(ResolvedEntry, WidthOf(last.op)) = None)
    => /\ last.status = "ok"
       /\ last.calls = << >>
       /\ (Matching # {} => entries = pre.entries)
       /\ (Matching = {} => entries = Append(pre.entries, MemoryMapEntry_new))
       /\ current_addr = pre.current_addr
       /\ global_addr_mask = pre.global_addr_mask
       /\ \/ Map = pre
          \/ \A r \in ReadOps :
                Observed(BusOp(r, 0, Map)) = Observed(BusOp(r, 0, pre))

\* write_u8(0x55) found no entry containing the address: it returned
\* without error, the default entry was appended, and a read_u8 issued now
\* returns 0 as it would have before.
C4_Witness ==
    /\ last.op = "write_u8"
    /\ last.arg = 85
    /\ last.status = "ok"
    /\ Matching = {}
    /\ entries = Append(pre.entries, MemoryMapEntry_new)
    /\ read_u8(Map).value = 0
    /\ read_u8(pre).value = 0

(***************************************************************************)
(* C5: a read wider than 8 bits that resolves to an entry without a read   *)
(* handler of its width returns what the next narrower read returns at the *)
(* same address, zero-extended: the value of the handler of the widest     *)
(* narrower width that has one (called once, with the current address),    *)
(* and with no handler at any narrower width 0 for UnmappedLow and 0xFF,   *)
(* not the all-ones of the width read, for UnmappedHigh.                   *)
(***************************************************************************)
C5_WideReadFallsBack ==
    (Resolved /\ last.op \in ReadOps \ {"read_u8"}
       /\ ReadFunc(ResolvedEntry, WidthOf(last.op)) = None)
    => LET w == WidthOf(last.op)
           e == ResolvedEntry
           narrower == CASE w = 16 -> "read_u8" [] w = 32 -> "read_u16"
                         [] w = 64 -> "read_u32" [] w = 128 -> "read_u64"
           handled == HandledUpTo(e, w)
       IN  /\ Observed(BusOp(narrower, 0, pre))
              = [status |-> last.status, value |-> last.value, calls |-> last.calls]
           /\ handled # {} =>
                LET k == Widest(handled)
                IN  /\ last.status = "ok"
                    /\ last.value = ReadDelegate(ReadFunc(e, k), k, current_addr)
                    /\ last.calls = << ReadCall(ReadFunc(e, k), k, current_addr) >>
           /\ (handled = {} /\ e.entry_type = "UnmappedLow")
              => (last.status = "ok" /\ last.value = 0 /\ last.calls = << >>)
           /\ (handled = {} /\ e.entry_type = "UnmappedHigh")
              => (last.status = "ok" /\ last.value = 255 /\ last.calls = << >>)

\* read_u32 resolved to an entry whose only read handler is the 8-bit one
\* and returned that handler's byte.
C5_Witness ==
    /\ last.op = "read_u32"
    /\ last.status = "ok"
    /\ ResolvedEntry.func_read_u8 # None
    /\ ResolvedEntry.func_read_u16 = None
    /\ ResolvedEntry.func_read_u32 = None
    /\ last.value = ReadDelegate(ResolvedEntry.func_read_u8, 8, current_addr)
    /\ last.value < 256

(***************************************************************************)
(* C6: a read that reaches the 8-bit step on an entry typed Read, Write or *)
(* ReadWrite without an 8-bit read handler ends in the fatal "memory map   *)
(* is broken" panic and returns no value; no read that resolves to an      *)
(* UnmappedLow or UnmappedHigh entry and no write ever ends in it.         *)
(***************************************************************************)
C6_BrokenMapIsFatal ==
    /\ (Resolved /\ last.op \in ReadOps
          /\ HandledUpTo(ResolvedEntry, WidthOf(last.op)) = {}
          /\ ResolvedEntry.entry_type \in MappedTypes)
       => (last.status = "broken_map" /\ last.calls = << >>)
    /\ last.status = "broken_map"
       => /\ last.op \in ReadOps
          /\ ResolvedEntry.entry_type \in MappedTypes
          /\ HandledUpTo(ResolvedEntry, WidthOf(last.op)) = {}
    /\ (Resolved /\ last.op \in WriteOps) => last.status = "ok"

\* read_u64 fell through to the 8-bit step on a mapped entry and panicked.
C6_Witness ==
    /\ last.op = "read_u64"
    /\ last.status = "broken_map"
    /\ ResolvedEntry.entry_type = "Write"

(***************************************************************************)
(* C7: when some entry's inclusive range contains the masked address,      *)
(* resolution returns the entry of the smallest index among those that     *)
(* contain it, also when ranges overlap, and leaves the entry list as it   *)
(* was.                                                                    *)
(***************************************************************************)
C7_FirstMatchWins ==
    last.op \in ResolvingOps
    => LET matching == Matching
       IN  matching # {}
           => /\ last.status # "index_out_of_bounds"
              /\ last.hit
              /\ last.idx \in matching
              /\ \A i \in matching : last.idx <= i
              /\ ResolvedEntry = pre.entries[last.idx + 1]
              /\ entries = pre.entries

\* Two different entries both contained the address, the first of them not
\* at its range's edge alone, and resolution returned the one at index 0.
C7_Witness ==
    /\ last.op = "search_entries"
    /\ Len(pre.entries) = 2
    /\ pre.entries[1] # pre.entries[2]
    /\ Matching = {0, 1}
    /\ MaskedAddr = pre.entries[1].end
    /\ last.idx = 0

C9_StaleEntryReturned ==
    \E es \in EntryLists(MaxEntries) : \E a \in Address :
    \E m \in Masks \cup {global_addr_mask} :
       LET map == [entries |-> es, current_addr |-> a, global_addr_mask |-> m]
           sr == search_entries(map)
       IN  /\ Len(es) > 1
           /\ \A i \in 1 .. Len(es) : ~ Contains(es[i], addr(map))
           /\ sr.status = "ok"
           /\ sr.idx < Len(es)

(***************************************************************************)
(* C9 as amended: when none of the entries contains the current address,   *)
(* resolution picks its result by the index of the last entry visited plus *)
(* one, which is the index of the default entry it has just appended; it   *)
(* never returns an entry that was in the list before the miss.            *)
(***************************************************************************)
C9_MissReturnsAppended ==
    (last.op \in ResolvingOps /\ Matching = {})
    => /\ last.status = "ok"
       /\ last.idx = (Len(pre.entries) - 1) + 1
       /\ last.idx >= Len(pre.entries)
       /\ last.idx = Len(entries) - 1
       /\ ResolvedEntry = MemoryMapEntry_new

\* A bare resolution missed both entries of a two-entry list and returned
\* the entry at index 2.
C9_Witness ==
    /\ last.op = "search_entries"
    /\ Matching = {}
    /\ Len(pre.entries) = 2
    /\ last.idx = 2

(***************************************************************************)
(* C10: from MemoryMap::new(), under any sequence of selects, reads,       *)
(* writes, mask changes and appended entries, entry 0 stays the full-range *)
(* default entry and every resolution returns it: no resolution misses, no *)
(* bus operation changes the length of the list, and no appended entry is  *)
(* selected nor any handler of one called.                                 *)
(***************************************************************************)
C10_EntryZeroAlwaysResolved ==
    /\ Len(entries) >= 1
    /\ entries[1] = MemoryMapEntry_new
    /\ last.op \in ResolvingOps
       => /\ last.status = "ok"
          /\ last.hit
          /\ last.idx = 0
          /\ Len(entries) = Len(pre.entries)
          /\ last.calls = << >>
          /\ last.value = 0

\* An entry with an 8-bit read handler covering address 2 was appended, and
\* read_u8 at address 2 still resolved entry 0 and returned 0.
C10_Witness ==
    /\ last.op = "read_u8"
    /\ Len(entries) = 2
    /\ entries[2].func_read_u8 # None
    /\ Contains(entries[2], MaskedAddr)
    /\ current_addr = 2
    /\ last.idx = 0
    /\ last.value = 0

====
